---- MODULE Spec2Model ----
(***************************************************************************)
(* serialize-to-javascript: the escaper (Serialized::new /                 *)
(* escape_json_parse, estimated_capacity) and the render method that       *)
(* #[derive(Template)] generates.                                          *)
(*                                                                         *)
(* A Rust string is a sequence of characters, each character a one-element *)
(* TLA+ string; the token "U+00E9" stands for one two-byte character.      *)
(* Offsets are counted in characters, lengths (str::len) in bytes.         *)
(***************************************************************************)
EXTENDS Integers, Sequences, FiniteSets, TLC

VARIABLES
    epc,        \* position of the caller of the escaper API
    json,       \* the RawValue's text (json.get())
    options,    \* the Options passed to Serialized::new / render
    capacity,   \* what String::with_capacity was called with
    serialized, \* the Serialized returned by Serialized::new
    out,        \* the String got out of it
    fields,     \* the struct deriving Template: its named fields, in order
    document,   \* render's `template: &str` argument
    template,   \* render's `template` binding (shadowed once per field)
    pos,        \* number of fields render has taken up
    reads,      \* per field: how many times its value was accessed
    result,     \* what render returned
    pc          \* position of the render call

evars == <<epc, json, options, capacity, serialized, out>>
rvars == <<fields, document, template, pos, reads, result, pc>>
vars == <<epc, json, options, capacity, serialized, out,
          fields, document, template, pos, reads, result, pc>>

----------------------------------------------------------------------------
(* Bounds of the model *)

\* longest &str given to serde_json::to_raw_value in the escaper model
MaxLen == 3
\* largest small value of Options::buf that is tried
MaxBuf == 2
\* most fields of a struct deriving Template
MaxFields == 2

\* usize is 16, 32 or 64 bits wide (target_pointer_width); the arithmetic
\* of estimated_capacity is the same modulo 2^w, and 16 keeps it in range.
UsizeBits == 16
UsizeMax == 2^UsizeBits - 1
IsizeMax == 2^(UsizeBits - 1) - 1

----------------------------------------------------------------------------
(* Strings *)

BACKSLASH == "\\"
QUOTE == "'"
DQUOTE == "\""

\* char::len_utf8, for the characters of the model
len_utf8(c) == IF c = "U+00E9" THEN 2 ELSE 1

\* str::len: the length in bytes
RECURSIVE str_len(_)
str_len(s) == IF s = <<>> THEN 0 ELSE len_utf8(Head(s)) + str_len(Tail(s))

\* &s[from..to], offsets from 0, `to` excluded
Slice(s, from, to) == SubSeq(s, from + 1, to)

\* all strings over `alphabet` of at most n characters
RECURSIVE StringsUpTo(_, _)
StringsUpTo(alphabet, n) ==
    IF n = 0 THEN {<<>>}
    ELSE LET shorter == StringsUpTo(alphabet, n - 1)
         IN shorter \cup {Append(s, c) : s \in shorter, c \in alphabet}

Digits == <<"0", "1", "2", "3", "4", "5", "6", "7", "8", "9">>

\* an unsigned integer in decimal, as Display and serde_json write it
RECURSIVE DecStr(_)
DecStr(n) ==
    IF n < 10 THEN <<Digits[n + 1]>>
    ELSE Append(DecStr(n \div 10), Digits[(n % 10) + 1])

----------------------------------------------------------------------------
(* Values of fields: a &str, a usize, a value whose Serialize and Display  *)
(* read and bump a counter, and a value whose Serialize returns an error.  *)

Str(s) == [tag |-> "str", s |-> s, n |-> 0]
Num(n) == [tag |-> "num", s |-> <<>>, n |-> n]
Counter(n) == [tag |-> "counter", s |-> <<>>, n |-> n]
Bad(e, s) == [tag |-> "bad", s |-> s, n |-> e]

\* what the k+1-th access to a field's value observes
ReadValue(v, k) == IF v.tag = "counter" THEN Num(v.n + k) ELSE v

\* serde_json's escaping inside a JSON string
RECURSIVE json_escape(_)
json_escape(s) ==
    IF s = <<>> THEN <<>>
    ELSE LET c == Head(s)
         IN (IF c = DQUOTE \/ c = BACKSLASH THEN <<BACKSLASH, c>> ELSE <<c>>)
            \o json_escape(Tail(s))

\* serde_json::to_string of a value that serializes
to_string(v) ==
    IF v.tag = "str" THEN <<DQUOTE>> \o json_escape(v.s) \o <<DQUOTE>>
    ELSE DecStr(v.n)

\* ToString::to_string (Display) of a value
display(v) == IF v.tag \in {"str", "bad"} THEN v.s ELSE DecStr(v.n)

\* try_from with the serializer's error swallowed
try_from_lenient(v) ==
    IF v.tag = "bad"
    THEN [tag |-> "Ok", value |-> <<"n", "u", "l", "l">>, error |-> 0]
    ELSE [tag |-> "Ok", value |-> to_string(v), error |-> 0]

\* TryFrom<NotYetSerialized<T>>: serialize the value, once
try_from(v) ==
    IF v.tag = "bad"
    THEN [tag |-> "Err", value |-> <<>>, error |-> v.n]
    ELSE [tag |-> "Ok", value |-> to_string(v), error |-> 0]

----------------------------------------------------------------------------
(* The escaper *)

FREEZE_REVIVER ==
    <<",", "(", "_", ",", "v", ")", "=", ">",
      "O", "b", "j", "e", "c", "t", ".", "f", "r", "e", "e", "z", "e",
      "(", "v", ")">>

JSON_PARSE_OPEN == <<"J", "S", "O", "N", ".", "p", "a", "r", "s", "e", "(", "'">>

\* the sum estimated_capacity computes, before it is cut to a usize
capacity_sum(j, o) ==
    14 + str_len(j) + o.buf + (IF o.freeze THEN str_len(FREEZE_REVIVER) ELSE 0)

\* one of the `buf +=` overflows usize (all terms are non-negative)
capacity_overflows(j, o) == capacity_sum(j, o) > UsizeMax

\* estimated_capacity, where it returns: wrapping, as without overflow checks
estimated_capacity(j, o) == capacity_sum(j, o) % (UsizeMax + 1)

\* match_indices with the backslash left out of the pattern
match_indices_quote_only(j) ==
    LET hits == {i \in 0 .. Len(j) - 1 : j[i + 1] = QUOTE}
        RECURSIVE ascending(_, _)
        ascending(from, todo) ==
            IF todo = {} THEN <<>>
            ELSE IF from \in todo
                 THEN <<from>> \o ascending(from + 1, todo \ {from})
                 ELSE ascending(from + 1, todo)
    IN ascending(0, hits)

\* json.match_indices(|c| c == '\\' || c == '\''): offsets of the matches
match_indices(j) ==
    LET hits == {i \in 0 .. Len(j) - 1 : j[i + 1] = BACKSLASH \/ j[i + 1] = QUOTE}
        RECURSIVE ascending(_, _)
        ascending(from, todo) ==
            IF todo = {} THEN <<>>
            ELSE IF from \in todo
                 THEN <<from>> \o ascending(from + 1, todo \ {from})
                 ELSE ascending(from + 1, todo)
    IN ascending(0, hits)

\* the for loop with `last = idx + 1`: the escaped character is dropped
RECURSIVE escape_loop_skip(_, _, _, _)
escape_loop_skip(j, idxs, last, buf) ==
    IF idxs = <<>> THEN [buf |-> buf, last |-> last]
    ELSE LET idx == Head(idxs)
         IN escape_loop_skip(j, Tail(idxs), idx + 1,
                             (buf \o Slice(j, last, idx)) \o <<BACKSLASH>>)

\* the for loop: push the unescaped slice, push a backslash, move `last`
RECURSIVE escape_loop(_, _, _, _)
escape_loop(j, idxs, last, buf) ==
    IF idxs = <<>> THEN [buf |-> buf, last |-> last]
    ELSE LET idx == Head(idxs)
         IN escape_loop(j, Tail(idxs), idx,
                        (buf \o Slice(j, last, idx)) \o <<BACKSLASH>>)

\* escape_json_parse with the reviver pushed before the closing quote
escape_json_parse_reviver_inside(j, o) ==
    LET looped == escape_loop(j, match_indices(j), 0, JSON_PARSE_OPEN)
        trailing == looped.buf \o Slice(j, looped.last, Len(j))
        revived == IF o.freeze THEN trailing \o FREEZE_REVIVER ELSE trailing
    IN revived \o <<QUOTE, ")">>

\* lib.rs escape_json_parse: the contents of the returned Serialized
escape_json_parse(j, o) ==
    LET opened == JSON_PARSE_OPEN
        looped == escape_loop(j, match_indices(j), 0, opened)
        trailing == looped.buf \o Slice(j, looped.last, Len(j))
        closed == Append(trailing, QUOTE)
        revived == IF o.freeze THEN closed \o FREEZE_REVIVER ELSE closed
    IN Append(revived, ")")

\* private.rs escape_json_parse: the older escaper, which takes no options
private_escape_json_parse(j) ==
    LET looped == escape_loop(j, match_indices(j), 0, JSON_PARSE_OPEN)
        trailing == looped.buf \o Slice(j, looped.last, Len(j))
    IN trailing \o <<QUOTE, ")">>

----------------------------------------------------------------------------
(* Callers of the escaper: serde_json::value::to_raw_value, then           *)
(* Serialized::new and into_string (lib.rs), or the hidden                 *)
(* private::Serialized::into_javascript_string_literal.                    *)

Alphabet == {"a", QUOTE, BACKSLASH, DQUOTE, "U+00E9"}
EscValues == {Str(s) : s \in StringsUpTo(Alphabet, MaxLen)} \cup {Num(4), Num(10)}
BufValues == (0 .. MaxBuf) \cup {IsizeMax, UsizeMax}
OptionsValues == [freeze : BOOLEAN, buf : BufValues]
OptionsDefault == [freeze |-> FALSE, buf |-> 0]

NoString == <<>>

NoResult == [tag |-> "None", value |-> NoString, error |-> 0]

InitRender ==
    /\ fields = <<>>
    /\ document = NoString
    /\ template = NoString
    /\ pos = 0
    /\ reads = <<>>
    /\ result = NoResult
    /\ pc = "unused"

InitEscape ==
    /\ epc = "start"
    /\ json = NoString
    /\ options = OptionsDefault
    /\ capacity = 0
    /\ serialized = NoString
    /\ out = NoString
    /\ InitRender

\* let raw_value = serde_json::value::to_raw_value(v)?
ToRawValue ==
    /\ epc = "start"
    /\ \E v \in EscValues : json' = to_string(v)
    /\ epc' = "raw"
    /\ UNCHANGED <<options, capacity, serialized, out>>
    /\ UNCHANGED rvars

\* Serialized::new(&raw_value, &options), where it returns
SerializedNew ==
    /\ epc = "raw"
    /\ \E o \in OptionsValues :
        /\ estimated_capacity(json, o) <= IsizeMax
        /\ options' = o
        /\ capacity' = estimated_capacity(json, o)
        /\ serialized' = escape_json_parse(json, o)
    /\ epc' = "new"
    /\ UNCHANGED <<json, out>>
    /\ UNCHANGED rvars

\* Serialized::new panics: an overflowing `buf +=` where overflow checks are
\* on, or String::with_capacity beyond isize::MAX ("capacity overflow")
SerializedNewPanic ==
    /\ epc = "raw"
    /\ \E o \in OptionsValues :
        /\ \/ capacity_overflows(json, o)
           \/ estimated_capacity(json, o) > IsizeMax
        /\ options' = o
    /\ epc' = "panic"
    /\ UNCHANGED <<json, capacity, serialized, out>>
    /\ UNCHANGED rvars

\* serialized.into_string()
IntoString ==
    /\ epc = "new"
    /\ out' = serialized
    /\ epc' = "string"
    /\ UNCHANGED <<json, options, capacity, serialized>>
    /\ UNCHANGED rvars

\* private::Serialized(raw_value).into_javascript_string_literal()
IntoJavascriptStringLiteral ==
    /\ epc = "raw"
    /\ out' = private_escape_json_parse(json)
    /\ epc' = "literal"
    /\ UNCHANGED <<json, options, capacity, serialized>>
    /\ UNCHANGED rvars

NextEscape ==
    \/ ToRawValue
    \/ SerializedNew
    \/ SerializedNewPanic
    \/ IntoString
    \/ IntoJavascriptStringLiteral

SpecEscape == InitEscape /\ [][NextEscape]_vars

----------------------------------------------------------------------------
(* The render method generated by #[derive(Template)]: one block per named *)
(* field, in the order of the struct's fields, each shadowing `template`.  *)

RAW_PREFIX == <<"_", "_", "R", "A", "W", "_">>
TEMPLATE_PREFIX == <<"_", "_", "T", "E", "M", "P", "L", "A", "T", "E", "_">>
SUFFIX == <<"_", "_">>

\* format!("__RAW_{}__", ident) / format!("__TEMPLATE_{}__", ident)
templated_field_name(f) ==
    IF f.raw THEN RAW_PREFIX \o f.name \o SUFFIX
    ELSE TEMPLATE_PREFIX \o f.name \o SUFFIX

\* s.match_indices(from): the offsets (from 0) of the matches of the
\* string `from`, found from the left and not overlapping
RECURSIVE str_match_indices(_, _, _)
str_match_indices(s, from, start) ==
    LET hits == {i \in start .. Len(s) - Len(from) : Slice(s, i, i + Len(from)) = from}
    IN IF hits = {} THEN <<>>
       ELSE LET idx == CHOOSE i \in hits : \A k \in hits : i <= k
            IN <<idx>> \o str_match_indices(s, from, idx + Len(from))

\* the loop of str::replace: push the text since the last match, push `to`
RECURSIVE replace_loop(_, _, _, _, _, _)
replace_loop(s, from, to, idxs, last_end, res) ==
    IF idxs = <<>> THEN res \o Slice(s, last_end, Len(s))
    ELSE replace_loop(s, from, to, Tail(idxs), Head(idxs) + Len(from),
                      (res \o Slice(s, last_end, Head(idxs))) \o to)

\* str::replace: every non-overlapping match of `from`, left to right
str_replace(s, from, to) ==
    replace_loop(s, from, to, str_match_indices(s, from, 0), 0, <<>>)

\* The generated code calls private::SerializedOnce's
\* into_javascript_string_literal(options) and
\* Serialized::from_string_unchecked; private.rs holds only the older
\* Serialized::into_javascript_string_literal(self), which takes no
\* options and returns a String (private_escape_json_parse above), and
\* lib.rs has no from_string_unchecked. The two callees are modelled by what
\* the call sites need: the serialized value goes through the escaper with
\* render's options, and the String is wrapped as it is.
into_javascript_string_literal(j, o) == escape_json_parse(j, o)

from_string_unchecked(s) == s

\* one field's block with the value converted anew for every occurrence of
\* the placeholder (the text of the last conversion is what is inserted)
render_field_per_occurrence(tpl, f, k, o) ==
    LET n == Len(str_match_indices(tpl, templated_field_name(f), 0))
        v == ReadValue(f.value, k + (IF n = 0 THEN 0 ELSE n - 1))
    IN IF f.raw
       THEN [tag |-> "Ok", error |-> 0, accesses |-> n,
             template |-> str_replace(tpl, templated_field_name(f), display(v))]
       ELSE LET once == try_from(v)
            IN IF once.tag = "Err"
               THEN [tag |-> "Err", error |-> once.error, accesses |-> 1,
                     template |-> tpl]
               ELSE [tag |-> "Ok", error |-> 0, accesses |-> n,
                     template |->
                        str_replace(tpl, templated_field_name(f),
                                    into_javascript_string_literal(once.value, o))]

\* one field's block with a raw field serialized and escaped like the others
render_field_raw_serialized(tpl, f, k, o) ==
    LET v == ReadValue(f.value, k)
        once == try_from(v)
    IN IF once.tag = "Err"
       THEN [tag |-> "Err", error |-> once.error, accesses |-> 1, template |-> tpl]
       ELSE [tag |-> "Ok", error |-> 0, accesses |-> 1,
             template |->
                str_replace(tpl, templated_field_name(f),
                            into_javascript_string_literal(once.value, o))]

\* one field's block with the escaper of private.rs, which takes no options
render_field_without_options(tpl, f, k, o) ==
    LET v == ReadValue(f.value, k)
    IN IF f.raw
       THEN [tag |-> "Ok", error |-> 0, accesses |-> 1,
             template |-> str_replace(tpl, templated_field_name(f), display(v))]
       ELSE LET once == try_from(v)
            IN IF once.tag = "Err"
               THEN [tag |-> "Err", error |-> once.error, accesses |-> 1,
                     template |-> tpl]
               ELSE [tag |-> "Ok", error |-> 0, accesses |-> 1,
                     template |->
                        str_replace(tpl, templated_field_name(f),
                                    private_escape_json_parse(once.value))]

\* one field's block, the field's value having been accessed k times before:
\* the new `template`, or the error that `?` returns; `accesses` counts the
\* accesses to self.<ident> the block makes
render_field(tpl, f, k, o) ==
    LET v == ReadValue(f.value, k)
    IN IF f.raw
       THEN [tag |-> "Ok", error |-> 0, accesses |-> 1,
             template |-> str_replace(tpl, templated_field_name(f), display(v))]
       ELSE LET once == try_from(v)
            IN IF once.tag = "Err"
               THEN [tag |-> "Err", error |-> once.error, accesses |-> 1,
                     template |-> tpl]
               ELSE [tag |-> "Ok", error |-> 0, accesses |-> 1,
                     template |->
                        str_replace(tpl, templated_field_name(f),
                                    into_javascript_string_literal(once.value, o))]

\* the block of an escaped field panics inside the escaper
field_panics(f, k, o) ==
    /\ ~f.raw
    /\ try_from(ReadValue(f.value, k)).tag = "Ok"
    /\ LET j == try_from(ReadValue(f.value, k)).value
       IN capacity_overflows(j, o) \/ estimated_capacity(j, o) > IsizeMax

\* the block of an escaped field can run to its end
field_returns(f, k, o) ==
    \/ f.raw
    \/ try_from(ReadValue(f.value, k)).tag = "Err"
    \/ estimated_capacity(try_from(ReadValue(f.value, k)).value, o) <= IsizeMax

\* the whole body of render on fields fs, where it returns
RECURSIVE render(_, _, _)
render(fs, tpl, o) ==
    IF fs = <<>> THEN [tag |-> "Ok", value |-> tpl, error |-> 0]
    ELSE LET r == render_field(tpl, Head(fs), 0, o)
         IN IF r.tag = "Err"
            THEN [tag |-> "Err", value |-> NoString, error |-> r.error]
            ELSE render(Tail(fs), r.template, o)

NameX == <<"x">>
NameXY == <<"x", "y">>
NameX__ == <<"x", "_", "_">>
FieldNames == {NameX, NameXY, NameX__}

Field(name, raw, value) == [name |-> name, raw |-> raw, value |-> value]
Placeholder(name, raw) == templated_field_name(Field(name, raw, Num(0)))

FieldValues ==
    { Str(<<QUOTE, BACKSLASH>>),
      Str(Placeholder(NameXY, TRUE)),
      Counter(0),
      Bad(1, <<QUOTE, BACKSLASH>>),
      Bad(2, <<"b">>) }

FieldSet == [name : FieldNames, raw : BOOLEAN, value : FieldValues]

\* structs: at most MaxFields fields, no two of the same name
RECURSIVE StructsUpTo(_)
StructsUpTo(n) ==
    IF n = 0 THEN {<<>>}
    ELSE LET smaller == StructsUpTo(n - 1)
         IN smaller \cup
            {Append(fs, f) : fs \in {g \in smaller : Len(g) = n - 1},
                             f \in FieldSet}

DistinctNames(fs) ==
    \A i, k \in 1 .. Len(fs) : i # k => fs[i].name # fs[k].name

Structs == {fs \in StructsUpTo(MaxFields) : DistinctNames(fs)}

Documents ==
    { Placeholder(NameX, FALSE) \o Placeholder(NameXY, FALSE),
      Placeholder(NameX, TRUE) \o <<"=">> \o Placeholder(NameX, TRUE)
         \o Placeholder(NameXY, TRUE) \o Placeholder(NameX, TRUE),
      Placeholder(NameX__, FALSE) \o <<"=">> \o Placeholder(NameX, FALSE)
         \o <<"=">> \o Placeholder(NameX, FALSE),
      <<"k", "=", "1">>,
      Placeholder(NameX, TRUE) \o Placeholder(NameXY, FALSE)
         \o Placeholder(NameX__, TRUE),
      Placeholder(NameXY, FALSE) \o Placeholder(NameX, FALSE)
         \o Placeholder(NameXY, TRUE) \o Placeholder(NameXY, FALSE) }

RenderOptions ==
    { [freeze |-> FALSE, buf |-> 0],
      [freeze |-> TRUE, buf |-> 1],
      [freeze |-> TRUE, buf |-> UsizeMax] }

Init ==
    /\ epc = "unused"
    /\ json = NoString
    /\ capacity = 0
    /\ serialized = NoString
    /\ out = NoString
    /\ options = OptionsDefault
    /\ fields \in Structs
    /\ document = NoString
    /\ template = NoString
    /\ pos = 0
    /\ reads = [i \in 1 .. Len(fields) |-> 0]
    /\ result = NoResult
    /\ pc = "idle"

\* value.render(template, &options) is called
RenderCall ==
    /\ pc = "idle"
    /\ \E d \in Documents, o \in RenderOptions :
        /\ document' = d
        /\ template' = d
        /\ options' = o
    /\ pc' = "running"
    /\ UNCHANGED <<fields, pos, reads, result>>
    /\ UNCHANGED <<epc, json, capacity, serialized, out>>

\* the block of the next field, a #[raw] one
RenderRawField ==
    /\ pc = "running"
    /\ pos < Len(fields)
    /\ LET f == fields[pos + 1]
           r == render_field(template, f, reads[pos + 1], options)
       IN /\ f.raw
          /\ r.tag = "Ok"
          /\ template' = r.template
          /\ reads' = [reads EXCEPT ![pos + 1] = @ + r.accesses]
    /\ pos' = pos + 1
    /\ UNCHANGED <<fields, document, result, pc>>
    /\ UNCHANGED evars

\* the block of the next field, a serialized one
RenderEscapedField ==
    /\ pc = "running"
    /\ pos < Len(fields)
    /\ LET f == fields[pos + 1]
           r == render_field(template, f, reads[pos + 1], options)
       IN /\ ~f.raw
          /\ field_returns(f, reads[pos + 1], options)
          /\ r.tag = "Ok"
          /\ template' = r.template
          /\ reads' = [reads EXCEPT ![pos + 1] = @ + r.accesses]
    /\ pos' = pos + 1
    /\ UNCHANGED <<fields, document, result, pc>>
    /\ UNCHANGED evars

\* the block of the next field ends render: try_into()? returns the error
RenderFieldError ==
    /\ pc = "running"
    /\ pos < Len(fields)
    /\ LET f == fields[pos + 1]
           r == render_field(template, f, reads[pos + 1], options)
       IN /\ r.tag = "Err"
          /\ result' = [tag |-> "Err", value |-> NoString, error |-> r.error]
          /\ reads' = [reads EXCEPT ![pos + 1] = @ + r.accesses]
    /\ pos' = pos + 1
    /\ pc' = "done"
    /\ UNCHANGED <<fields, document, template>>
    /\ UNCHANGED evars

\* the escaper panics in the block of the next field
RenderPanic ==
    /\ pc = "running"
    /\ pos < Len(fields)
    /\ field_panics(fields[pos + 1], reads[pos + 1], options)
    /\ reads' = [reads EXCEPT ![pos + 1] = @ + 1]
    /\ pos' = pos + 1
    /\ pc' = "panic"
    /\ UNCHANGED <<fields, document, template, result>>
    /\ UNCHANGED evars

\* Ok(Serialized::from_string_unchecked(template.into()))
RenderReturn ==
    /\ pc = "running"
    /\ pos = Len(fields)
    /\ result' = [tag |-> "Ok", value |-> from_string_unchecked(template), error |-> 0]
    /\ pc' = "done"
    /\ UNCHANGED <<fields, document, template, pos, reads>>
    /\ UNCHANGED evars

Next ==
    \/ RenderCall
    \/ RenderRawField
    \/ RenderEscapedField
    \/ RenderFieldError
    \/ RenderPanic
    \/ RenderReturn

Spec == Init /\ [][Next]_vars

----------------------------------------------------------------------------
(* Properties of the escaper *)

HasSpecial(j) == \E i \in 1 .. Len(j) : j[i] = BACKSLASH \/ j[i] = QUOTE
HasBoth(j) ==
    /\ \E i \in 1 .. Len(j) : j[i] = BACKSLASH
    /\ \E i \in 1 .. Len(j) : j[i] = QUOTE
Returned == epc \in {"new", "string"}

\* E(t): one backslash before each backslash and each single quote
RECURSIVE EscapedText(_)
EscapedText(t) ==
    IF t = <<>> THEN <<>>
    ELSE (IF Head(t) \in {BACKSLASH, QUOTE} THEN <<BACKSLASH, Head(t)>> ELSE <<Head(t)>>)
         \o EscapedText(Tail(t))

\* C1: whatever the text and the options, what Serialized::new returns is
\* JSON.parse(' + E(t) + ' + (the reviver if freeze) + ), and without
\* backslash, single quote and freeze it is JSON.parse(' + t + ').
C1_ExactOutput ==
    Returned =>
        /\ serialized =
             JSON_PARSE_OPEN \o EscapedText(json) \o <<QUOTE>>
               \o (IF options.freeze THEN FREEZE_REVIVER ELSE <<>>) \o <<")">>
        /\ (~HasSpecial(json) /\ ~options.freeze)
             => serialized = JSON_PARSE_OPEN \o json \o <<QUOTE, ")">>

C1_Witness == epc = "new" /\ options.freeze /\ HasBoth(json)

\* reading a single-quoted script string literal from offset i (from 1):
\* a backslash makes the next character literal, a bare quote ends it
RECURSIVE js_scan(_, _, _)
js_scan(s, i, acc) ==
    IF i > Len(s) THEN [closed |-> FALSE, at |-> i, str |-> acc]
    ELSE IF s[i] = BACKSLASH
         THEN IF i + 1 > Len(s)
              THEN [closed |-> FALSE, at |-> i, str |-> acc]
              ELSE js_scan(s, i + 2, Append(acc, s[i + 1]))
         ELSE IF s[i] = QUOTE
              THEN [closed |-> TRUE, at |-> i, str |-> acc]
              ELSE js_scan(s, i + 1, Append(acc, s[i]))

\* C2: with the default options the literal that starts after JSON.parse('
\* ends at the quote the escaper pushed last (the character before the
\* closing parenthesis) and decodes to the serialized text itself.
C2_RoundTrip ==
    (Returned /\ options = OptionsDefault) =>
        LET lit == js_scan(serialized, Len(JSON_PARSE_OPEN) + 1, <<>>)
        IN /\ lit.closed
           /\ lit.at = Len(serialized) - 1
           /\ lit.str = json

C2_Witness == epc = "new" /\ options = OptionsDefault /\ HasBoth(json)

\* C9: for every buf, the output with freeze is the output without it with
\* the reviver put between the closing quote and the closing parenthesis,
\* and taking the reviver out again gives the output without freeze.
C9_FreezeWrapping ==
    Returned =>
        \A b \in BufValues :
            LET other == escape_json_parse(json, [freeze |-> ~options.freeze, buf |-> b])
                frozen == IF options.freeze THEN serialized ELSE other
                plain == IF options.freeze THEN other ELSE serialized
                n == Len(plain)
            IN /\ plain[n] = ")"
               /\ plain[n - 1] = QUOTE
               /\ frozen = SubSeq(plain, 1, n - 1) \o FREEZE_REVIVER \o <<")">>
               /\ SubSeq(frozen, 1, n - 1)
                    \o SubSeq(frozen, n + Len(FREEZE_REVIVER), Len(frozen)) = plain

C9_Witness == epc = "new" /\ options.freeze /\ options.buf = 1 /\ HasSpecial(json)

\* C10: the capacity is 14 + len + buf + (reviver length if freeze); text
\* that needs no escaping fits it (exactly when buf is 0); the output is
\* longer than the capacity only with more escaped characters than buf.
C10_Capacity ==
    epc = "new" =>
        LET rev == IF options.freeze THEN str_len(FREEZE_REVIVER) ELSE 0
            escaped == Len(match_indices(json))
        IN /\ capacity = 14 + str_len(json) + options.buf + rev
           /\ ~HasSpecial(json) =>
                /\ str_len(serialized) <= capacity
                /\ options.buf = 0 => str_len(serialized) = capacity
           /\ str_len(serialized) > capacity => escaped > options.buf

\* the same, for the calls in which no `buf +=` overflows
C10_CapacityWithoutOverflow ==
    (epc = "new" /\ ~capacity_overflows(json, options)) => C10_Capacity

C10_OverflowReached ==
    epc = "new" /\ capacity_overflows(json, options) /\ ~HasSpecial(json)
      /\ str_len(serialized) > capacity

----------------------------------------------------------------------------
(* Properties of render *)

\* offset (from 1) of the first occurrence of p in s, 0 if there is none
FirstAt(s, p) ==
    LET at == {i \in 1 .. Len(s) - Len(p) + 1 : SubSeq(s, i, i + Len(p) - 1) = p}
    IN IF at = {} THEN 0 ELSE CHOOSE i \in at : \A k \in at : i <= k

Contains(s, p) == FirstAt(s, p) # 0

\* s with every occurrence of p, found from the left, replaced by rep
RECURSIVE SubstAll(_, _, _)
SubstAll(s, p, rep) ==
    LET i == FirstAt(s, p)
    IN IF i = 0 THEN s
       ELSE SubSeq(s, 1, i - 1) \o rep
              \o SubstAll(SubSeq(s, i + Len(p), Len(s)), p, rep)

PlaceholderText(f) ==
    (IF f.raw THEN RAW_PREFIX ELSE TEMPLATE_PREFIX) \o f.name \o SUFFIX

\* the field's value as one access, the first, finds it
FirstRead(f) == IF f.value.tag = "counter" THEN Num(f.value.n) ELSE f.value

DisplayText(v) == IF v.tag \in {"str", "bad"} THEN v.s ELSE DecStr(v.n)

LiteralOf(t, o) ==
    JSON_PARSE_OPEN \o EscapedText(t) \o <<QUOTE>>
      \o (IF o.freeze THEN FREEZE_REVIVER ELSE <<>>) \o <<")">>

\* the text a field is converted to: displayed, or serialized and escaped
ConvertedText(f, o) ==
    IF f.raw THEN DisplayText(FirstRead(f))
    ELSE LiteralOf(to_string(FirstRead(f)), o)

Failing == {i \in 1 .. Len(fields) : ~fields[i].raw /\ fields[i].value.tag = "bad"}

\* the block of field pos + 1 ran to its end and render goes on
FieldDone == pc = "running" /\ pos < Len(fields) /\ pos' = pos + 1 /\ pc' = "running"

ReadOnce ==
    /\ \A i \in 1 .. Len(fields) : reads[i] = (IF i <= pos THEN 1 ELSE 0)
    /\ (pc = "done" /\ result.tag = "Ok") => \A i \in 1 .. Len(fields) : reads[i] = 1

\* C3: render accesses a field's value once when it takes the field up and
\* never again, so in a render that returns Ok every field was read exactly
\* once, whatever the number of occurrences of its placeholder; and every
\* occurrence is replaced by the one text converted from that first read.
C3_ExactlyOnce ==
    /\ []ReadOnce
    /\ [][FieldDone =>
            template' = SubstAll(template, PlaceholderText(fields[pos + 1]),
                                 ConvertedText(fields[pos + 1], options))]_vars

C3_Witness ==
    /\ pc = "done" /\ result.tag = "Ok"
    /\ \E i \in 1 .. Len(fields) :
        /\ fields[i].value.tag = "counter"
        /\ LET p == PlaceholderText(fields[i])
               i1 == FirstAt(document, p)
           IN /\ i1 # 0
              /\ Contains(SubSeq(document, i1 + Len(p), Len(document)), p)
    /\ \E i \in 1 .. Len(fields) : ~Contains(document, PlaceholderText(fields[i]))

RECURSIVE AllSubstituted(_, _, _)
AllSubstituted(fs, d, o) ==
    IF fs = <<>> THEN d
    ELSE AllSubstituted(Tail(fs),
                        SubstAll(d, PlaceholderText(Head(fs)), ConvertedText(Head(fs), o)),
                        o)

\* C6: when some serialized field's value fails to serialize, render
\* returns the error of the first such field and no document, and no later
\* field was read; when none fails, it returns Ok with the document in
\* which every field's replacement was made.
C6_ErrorShortCircuit ==
    pc = "done" =>
        IF Failing # {}
        THEN LET first == CHOOSE i \in Failing : \A k \in Failing : i <= k
             IN /\ result = [tag |-> "Err", value |-> NoString,
                             error |-> fields[first].value.n]
                /\ \A i \in 1 .. Len(fields) : i > first => reads[i] = 0
        ELSE result = [tag |-> "Ok", error |-> 0,
                       value |-> AllSubstituted(fields, document, options)]

C6_Witness ==
    /\ pc = "done" /\ result.tag = "Err"
    /\ Cardinality(Failing) = 2
    /\ \E i, k \in Failing : fields[i].value.n # fields[k].value.n

\* C7: the block of a raw field replaces every occurrence of __RAW_<name>__
\* by the value's display text as it is, whatever the options, and returns
\* no error: an error render returns is never that of a raw field.
C7_RawBypass ==
    /\ [][(pc = "running" /\ pos < Len(fields) /\ fields[pos + 1].raw
             /\ pos' = pos + 1) =>
            /\ pc' = "running"
            /\ result' = result
            /\ template' = SubstAll(template,
                                    RAW_PREFIX \o fields[pos + 1].name \o SUFFIX,
                                    DisplayText(FirstRead(fields[pos + 1])))]_vars
    /\ [](result.tag = "Err" => ~fields[pos].raw)

C7_Witness ==
    /\ pc = "done" /\ result.tag = "Ok" /\ options.freeze
    /\ \E i \in 1 .. Len(fields) :
        /\ fields[i].raw
        /\ fields[i].value = Bad(1, <<QUOTE, BACKSLASH>>)
        /\ Contains(document, PlaceholderText(fields[i]))
        /\ Contains(result.value, <<QUOTE, BACKSLASH>>)

Reordered(fs) ==
    {[i \in 1 .. Len(fs) |-> fs[s[i]]] : s \in Permutations(1 .. Len(fs))}

\* C4: when every value serializes, render returns the same document for
\* every order of the struct's fields.
C4_OrderIndependence ==
    (pc = "done" /\ \A i \in 1 .. Len(fields) : fields[i].value.tag # "bad") =>
        \A fs \in Reordered(fields) : render(fs, document, options) = result

\* C5: the placeholder of one field never occurs inside that of another
\* field, and replacing one of two adjacent placeholders leaves the other.
C5_PlaceholderDisjoint ==
    \A i, k \in 1 .. Len(fields) :
        i # k =>
            LET pi == templated_field_name(fields[i])
                pk == templated_field_name(fields[k])
            IN /\ ~Contains(pk, pi)
               /\ str_replace(pi \o pk, pi, <<"X">>) = <<"X">> \o pk
               /\ str_replace(pk \o pi, pi, <<"X">>) = pk \o <<"X">>

====
